---- MODULE Spec2Model ----
(***************************************************************************)
(* Model of script.js, the page script of the mock cloud console:          *)
(*   - the nav-link click handler and the dashboard initialisation,        *)
(*   - deployArchitecture / showDeploymentProgress,                        *)
(*   - exportArchitecture and the JSON.stringify call it makes,            *)
(*   - simulateAPICall (defined by the script, called from nowhere).       *)
(* The page runs on one thread.  confirm() and alert() are modal: while    *)
(* one is open the thread is blocked inside the function that opened it    *)
(* and no other handler runs.  `dialog` is that position.                  *)
(***************************************************************************)
EXTENDS Integers, Sequences, FiniteSets, TLC

VARIABLES
    sections,        \* ids of the .content-section elements of the document
    activeLinks,     \* nav links carrying class "active"
    activeSections,  \* content sections carrying class "active"
    lastSelected,    \* history: section of the last click whose target existed
    lastClicked,     \* history: the nav link clicked last, "none" before any
    dialog,          \* modal dialog the thread is blocked in, or "none"
    workflow,        \* history: where the last deployArchitecture call stands
    confirms,        \* number of confirm() calls made so far
    answers,         \* history: the values confirm() returned, in order
    alerts,          \* messages handed to alert(), in order
    simulated,       \* actions handed to simulateAPICall, in order
    downloads,       \* files handed to the browser's download, in order
    objectUrls,      \* live object URLs, each with the blob it stands for
    body,            \* anchors exportArchitecture has attached to document.body
    exportCalls      \* history: the calls exportArchitecture made, in order

vars == <<sections, activeLinks, activeSections, lastSelected, lastClicked,
          dialog, workflow, confirms, answers, alerts, simulated, downloads,
          objectUrls, body, exportCalls>>

navVars == <<sections, activeLinks, activeSections, lastSelected, lastClicked>>

handOffVars == <<objectUrls, body, exportCalls>>

\* ------------------------------------------------------------------ bounds
MaxDeploys == 2
MaxExports == 2

\* ---------------------------------------------------------------- document
\* The nav links of the page, each named by its data-section attribute.
NavLinks == {"dashboard", "ec2", "architecture"}

\* this.getAttribute('data-section')
DataSection(link) == link

\* document.getElementById(sectionId): the element, or null when none has the id
GetElementById(id) == IF id \in sections THEN id ELSE "null"

\* ------------------------------------------------------------- navigation
\* Variant: the "active" classes are left where they are.
ClearActiveNot(active, elements) == active

\* classList after lines 12-13: each of the elements loses "active"
ClearActive(active, elements) == active \ elements

\* classList after lines 21-23: the target gains "active" only when it exists
ShowTarget(cleared, target) ==
    IF target # "null" THEN cleared \cup {target} ELSE cleared

\* The click handler of one nav link (lines 8-24).
ClickNavLink(link) ==
    /\ dialog = "none"
    /\ LET sectionId == DataSection(link)
           targetSection == GetElementById(sectionId)
       IN /\ activeLinks' = ClearActive(activeLinks, NavLinks) \cup {link}
          /\ activeSections' = ShowTarget(ClearActive(activeSections, sections),
                                       targetSection)
          /\ lastSelected' = IF targetSection # "null" THEN sectionId
                             ELSE lastSelected
          /\ lastClicked' = link
    /\ UNCHANGED <<sections, dialog, workflow, confirms, answers, alerts,
                   simulated, downloads, handOffVars>>

\* ------------------------------------------------------------- deployment
\* Variant: two step lines of the message change places.
StepsOutOfOrder ==
    << "Creating VPC...", "Creating subnets...",
       "Creating NAT Gateways...", "Creating Internet Gateway...",
       "Creating security groups...", "Launching EC2 instances...",
       "Creating load balancers...", "Creating RDS database...",
       "Configuring Route 53..." >>

\* The step lines of the "Deployment Started!" message (lines 122-130).
Steps == << "Creating VPC...", "Creating subnets...",
            "Creating Internet Gateway...", "Creating NAT Gateways...",
            "Creating security groups...", "Launching EC2 instances...",
            "Creating load balancers...", "Creating RDS database...",
            "Configuring Route 53..." >>

\* The message showDeploymentProgress hands to alert() (lines 120-132).
DeploymentStarted == [title |-> "Deployment Started!", lines |-> Steps]

\* Variant: deployArchitecture refuses to run unless the workflow is Idle.
DeployArchitectureOnce ==
    /\ dialog = "none"
    /\ workflow = "Idle"
    /\ confirms < MaxDeploys
    /\ dialog' = "confirm"
    /\ workflow' = "Confirming"
    /\ confirms' = confirms + 1
    /\ UNCHANGED <<navVars, answers, alerts, simulated, downloads, handOffVars>>

\* deployArchitecture up to its confirm() call (lines 98-112).
DeployArchitecture ==
    /\ dialog = "none"
    /\ confirms < MaxDeploys
    /\ dialog' = "confirm"
    /\ workflow' = "Confirming"
    /\ confirms' = confirms + 1
    /\ UNCHANGED <<navVars, answers, alerts, simulated, downloads, handOffVars>>

\* Variant: the answer of confirm() is not looked at.
ProceedsAlways(confirmation) == TRUE

\* Whether line 114 lets the call go on to showDeploymentProgress.
Proceeds(confirmation) == confirmation

\* Variant: showDeploymentProgress hands every step to simulateAPICall.
ShowDeploymentProgressSimulates(log) == log \o Steps

\* The simulateAPICall calls showDeploymentProgress makes (lines 119-133):
\* none, its body is the one alert() call.
ShowDeploymentProgressCalls(log) == log

\* confirm() returns; lines 114-116, and showDeploymentProgress up to alert().
AnswerConfirm(confirmation) ==
    /\ dialog = "confirm"
    /\ answers' = Append(answers, confirmation)
    /\ IF Proceeds(confirmation)
       THEN /\ alerts' = Append(alerts, DeploymentStarted)
            /\ simulated' = ShowDeploymentProgressCalls(simulated)
            /\ dialog' = "progress"
            /\ workflow' = "Running"
       ELSE /\ alerts' = alerts
            /\ simulated' = simulated
            /\ dialog' = "none"
            /\ workflow' = "Cancelled"
    /\ UNCHANGED <<navVars, confirms, downloads, handOffVars>>

\* The user dismisses the progress alert; showDeploymentProgress and
\* deployArchitecture return (lines 133, 116-117).
DismissProgress ==
    /\ dialog = "progress"
    /\ dialog' = "none"
    /\ workflow' = "Completed"
    /\ UNCHANGED <<navVars, confirms, answers, alerts, simulated, downloads,
                   handOffVars>>

\* ----------------------------------------------------------------- export
\* JavaScript values as JSON.stringify sees them.  An object keeps its
\* properties in insertion order, so it is a sequence of key/value pairs.
Obj(props) == [t |-> "object", v |-> props]
Arr(elems) == [t |-> "array", v |-> elems]
Str(s) == [t |-> "string", v |-> s]
Num(n) == [t |-> "number", v |-> n]
Bool(b) == [t |-> "boolean", v |-> b]
P(key, value) == [k |-> key, v |-> value]

Subnet(name, cidr, az, type) ==
    Obj(<< P("name", Str(name)), P("cidr", Str(cidr)), P("az", Str(az)),
           P("type", Str(type)) >>)
Rule(port, protocol, source) ==
    Obj(<< P("port", Num(port)), P("protocol", Str(protocol)),
           P("source", Str(source)) >>)
SecurityGroup(name, inbound) ==
    Obj(<< P("name", Str(name)), P("inbound", Arr(inbound)) >>)
LoadBalancer(name, type, scheme) ==
    Obj(<< P("name", Str(name)), P("type", Str(type)),
           P("scheme", Str(scheme)) >>)
Instance(name, type, tier) ==
    Obj(<< P("name", Str(name)), P("type", Str(type)), P("tier", Str(tier)) >>)
Record(name, type, value) ==
    Obj(<< P("name", Str(name)), P("type", Str(type)),
           P("value", Str(value)) >>)

\* The properties of the object literal of exportArchitecture, one by one.
\* vpc (lines 137-141)
Vpc ==
    Obj(<< P("cidr", Str("10.0.0.0/16")),
           P("name", Str("production-vpc")),
           P("region", Str("us-east-1")) >>)

\* Variant: the third subnet is placed in the zone of the second.
SubnetsInTwoZones ==
    Arr(<< Subnet("public-subnet-1a", "10.0.1.0/24", "us-east-1a", "public"),
           Subnet("private-subnet-1b", "10.0.2.0/24", "us-east-1b", "private"),
           Subnet("private-subnet-1c", "10.0.3.0/24", "us-east-1b", "private")
        >>)

\* subnets (lines 142-146)
Subnets ==
    Arr(<< Subnet("public-subnet-1a", "10.0.1.0/24", "us-east-1a", "public"),
           Subnet("private-subnet-1b", "10.0.2.0/24", "us-east-1b", "private"),
           Subnet("private-subnet-1c", "10.0.3.0/24", "us-east-1c", "private")
        >>)

\* securityGroups (lines 147-167)
SecurityGroups ==
    Arr(<< SecurityGroup("web-tier-sg",
                         << Rule(80, "tcp", "0.0.0.0/0"),
                            Rule(443, "tcp", "0.0.0.0/0") >>),
           SecurityGroup("app-tier-sg", << Rule(8080, "tcp", "web-tier-sg") >>),
           SecurityGroup("db-tier-sg", << Rule(3306, "tcp", "app-tier-sg") >>)
        >>)

\* loadBalancers (lines 168-171)
LoadBalancers ==
    Arr(<< LoadBalancer("web-tier-alb", "application", "internet-facing"),
           LoadBalancer("app-tier-alb", "application", "internal") >>)

\* ec2Instances (lines 172-178)
Ec2Instances ==
    Arr(<< Instance("web-server-01", "t3.medium", "web"),
           Instance("web-server-02", "t3.medium", "web"),
           Instance("app-server-01", "t3.large", "app"),
           Instance("app-server-02", "t3.large", "app"),
           Instance("app-server-03", "t3.large", "app") >>)

\* rds (lines 179-186)
Rds ==
    Obj(<< P("identifier", Str("prod-db-01")),
           P("engine", Str("mysql")),
           P("version", Str("8.0.32")),
           P("instanceClass", Str("db.r5.large")),
           P("multiAZ", Bool(TRUE)),
           P("storage", Num(100)) >>)

\* route53 (lines 187-193)
Route53 ==
    Obj(<< P("domain", Str("example.com")),
           P("records", Arr(<< Record("www", "CNAME", "web-tier-alb"),
                               Record("api", "CNAME", "app-tier-alb") >>)) >>)

\* The object literal of exportArchitecture (lines 136-194).
ArchitectureConfig ==
    Obj(<< P("vpc", Vpc),
           P("subnets", Subnets),
           P("securityGroups", SecurityGroups),
           P("loadBalancers", LoadBalancers),
           P("ec2Instances", Ec2Instances),
           P("rds", Rds),
           P("route53", Route53) >>)

\* JSON.stringify(value, null, 2) (line 196).  The text is kept as the
\* sequence of its pieces; concatenated they are the bytes of the file.
RECURSIVE Spaces(_)
Spaces(n) == IF n = 0 THEN "" ELSE " " \o Spaces(n - 1)

NewLine(indent) == "\n" \o Spaces(indent)

Quote(s) == "\"" \o s \o "\""

RECURSIVE Reverse(_)
Reverse(seq) == IF seq = << >> THEN << >> ELSE Reverse(Tail(seq)) \o << Head(seq) >>

\* Variant: the properties are written last to first.
PropertyOrderReversed(props) == Reverse(props)

\* The order in which the properties of an object are written.
PropertyOrder(props) == props

\* The order in which the elements of an array are written.
ElementOrder(elems) == elems

RECURSIVE Stringify(_, _)
RECURSIVE StringifyProps(_, _)
RECURSIVE StringifyElems(_, _)

StringifyProps(props, indent) ==
    IF props = << >> THEN << >>
    ELSE << NewLine(indent), Quote(Head(props).k), ":", " " >>
         \o Stringify(Head(props).v, indent)
         \o (IF Len(props) > 1 THEN << "," >> ELSE << >>)
         \o StringifyProps(Tail(props), indent)

StringifyElems(elems, indent) ==
    IF elems = << >> THEN << >>
    ELSE << NewLine(indent) >>
         \o Stringify(Head(elems), indent)
         \o (IF Len(elems) > 1 THEN << "," >> ELSE << >>)
         \o StringifyElems(Tail(elems), indent)

Stringify(value, indent) ==
    CASE value.t = "object" ->
           IF value.v = << >> THEN << "{", "}" >>
           ELSE << "{" >> \o StringifyProps(PropertyOrder(value.v), indent + 2)
                \o << NewLine(indent), "}" >>
      [] value.t = "array" ->
           IF value.v = << >> THEN << "[", "]" >>
           ELSE << "[" >> \o StringifyElems(ElementOrder(value.v), indent + 2)
                \o << NewLine(indent), "]" >>
      [] value.t = "string" -> << Quote(value.v) >>
      [] value.t = "number" -> << ToString(value.v) >>
      [] value.t = "boolean" -> << IF value.v THEN "true" ELSE "false" >>

\* The message exportArchitecture hands to alert() (lines 207-218).
ConfigurationExported ==
    [title |-> "Architecture configuration exported!",
     lines |-> << "VPC and subnet configurations", "Security group rules",
                  "Load balancer settings", "EC2 instance specifications",
                  "RDS database configuration", "Route 53 DNS records" >>]

\* What exportArchitecture works on: the live object URLs, the children it
\* gave document.body, the files handed to the download, the messages shown,
\* and the calls made so far.
Page ==
    [urls |-> objectUrls, body |-> body, saved |-> downloads,
     shown |-> alerts, calls |-> exportCalls]

\* new Blob([jsonStr], { type: 'application/json' }) (line 197); config is
\* history, the object the text was made from.
NewBlob(jsonStr, config) ==
    [parts |-> jsonStr, type |-> "application/json", config |-> config]

\* The URL the next URL.createObjectURL call returns: one not given before.
FreshUrl(page) ==
    "blob:" \o ToString(Cardinality({i \in DOMAIN page.calls :
                                        page.calls[i] = "createObjectURL"}) + 1)

\* URL.createObjectURL(blob) (line 198): url becomes live and stands for blob.
CreateObjectURL(page, url, blob) ==
    [page EXCEPT !.urls = @ \cup {[url |-> url, blob |-> blob]},
                 !.calls = Append(@, "createObjectURL")]

\* document.createElement('a') with href and download set (lines 199-201).
Anchor(url, name) == [href |-> url, download |-> name]

\* document.body.appendChild(a) (line 202)
AppendChild(page, a) ==
    [page EXCEPT !.body = @ \cup {a}, !.calls = Append(@, "appendChild")]

\* a.click() (line 203): the browser saves what a.href stands for under the
\* name a.download; a URL that is not live stands for nothing.
Click(page, a) ==
    LET live == {u \in page.urls : u.url = a.href}
    IN [page EXCEPT
          !.saved = IF live = {} THEN @
                    ELSE LET blob == (CHOOSE u \in live : TRUE).blob
                         IN Append(@, [download |-> a.download,
                                       config |-> blob.config,
                                       blob |-> blob.parts]),
          !.calls = Append(@, "click")]

\* document.body.removeChild(a) (line 204)
RemoveChild(page, a) ==
    [page EXCEPT !.body = @ \ {a}, !.calls = Append(@, "removeChild")]

\* Variant: the object URL is never revoked.
RevokeObjectURLNot(page, url) ==
    [page EXCEPT !.calls = Append(@, "revokeObjectURL")]

\* URL.revokeObjectURL(url) (line 205): url stops being live.
RevokeObjectURL(page, url) ==
    [page EXCEPT !.urls = {u \in @ : u.url # url},
                 !.calls = Append(@, "revokeObjectURL")]

\* alert(message) (line 207)
Alert(page, message) ==
    [page EXCEPT !.shown = Append(@, message), !.calls = Append(@, "alert")]

\* const jsonStr = JSON.stringify(architectureConfig, null, 2) (line 196);
\* the literal is the same in every call, and so is its text.
JsonStr == Stringify(ArchitectureConfig, 0)

\* The body of exportArchitecture up to its alert() call (lines 136-218),
\* statement by statement; the value is what it leaves behind.
ExportArchitectureBody ==
    LET architectureConfig == ArchitectureConfig
        jsonStr == JsonStr
        blob == NewBlob(jsonStr, architectureConfig)
        url == FreshUrl(Page)
        created == CreateObjectURL(Page, url, blob)
        a == Anchor(url, "aws-architecture-config.json")
        attached == AppendChild(created, a)
        clicked == Click(attached, a)
        detached == RemoveChild(clicked, a)
        revoked == RevokeObjectURL(detached, url)
    IN Alert(revoked, ConfigurationExported)

\* Variant: exportArchitecture also puts the workflow back to Idle.
ExportArchitectureResets ==
    /\ dialog = "none"
    /\ Len(downloads) < MaxExports
    /\ LET page == ExportArchitectureBody
       IN /\ objectUrls' = page.urls
          /\ body' = page.body
          /\ downloads' = page.saved
          /\ alerts' = page.shown
          /\ exportCalls' = page.calls
    /\ dialog' = "exported"
    /\ workflow' = "Idle"
    /\ UNCHANGED <<navVars, confirms, answers, simulated>>

\* exportArchitecture up to its alert() call (lines 135-218): the literal is
\* built and serialised, a temporary anchor pointing at the blob is clicked
\* once, which hands the file to the browser's download.
ExportArchitecture ==
    /\ dialog = "none"
    /\ Len(downloads) < MaxExports
    /\ LET page == ExportArchitectureBody
       IN /\ objectUrls' = page.urls
          /\ body' = page.body
          /\ downloads' = page.saved
          /\ alerts' = page.shown
          /\ exportCalls' = page.calls
    /\ dialog' = "exported"
    /\ UNCHANGED <<navVars, workflow, confirms, answers, simulated>>

\* The user dismisses the export alert; exportArchitecture returns (line 219).
DismissExported ==
    /\ dialog = "exported"
    /\ dialog' = "none"
    /\ UNCHANGED <<navVars, workflow, confirms, answers, alerts, simulated,
                   downloads, handOffVars>>

\* ------------------------------------------------------------------- page
\* The state once the DOMContentLoaded handler has run (lines 2-34): the
\* document supplies the sections; the dashboard link and section become
\* active when both exist (lines 28-33).
Init ==
    /\ sections \in SUBSET NavLinks
    /\ LET dashboardLink == IF "dashboard" \in NavLinks THEN "dashboard" ELSE "null"
           dashboardSection == GetElementById("dashboard")
       IN IF dashboardLink # "null" /\ dashboardSection # "null"
          THEN /\ activeLinks = {dashboardLink}
               /\ activeSections = {dashboardSection}
          ELSE /\ activeLinks = {}
               /\ activeSections = {}
    /\ lastSelected = "dashboard"
    /\ lastClicked = "none"
    /\ dialog = "none"
    /\ workflow = "Idle"
    /\ confirms = 0
    /\ answers = << >>
    /\ alerts = << >>
    /\ simulated = << >>
    /\ downloads = << >>
    /\ objectUrls = {}
    /\ body = {}
    /\ exportCalls = << >>

Next ==
    \/ \E link \in NavLinks : ClickNavLink(link)
    \/ DeployArchitecture
    \/ \E confirmation \in BOOLEAN : AnswerConfirm(confirmation)
    \/ DismissProgress
    \/ ExportArchitecture
    \/ DismissExported

Spec == Init /\ [][Next]_vars

\* An open alert() is dismissed sooner or later: the user answers the dialog
\* that blocks the page.
FairSpec == Spec /\ WF_vars(DismissProgress)

\* ============================================================ properties
Last(seq) == seq[Len(seq)]

Count(seq, x) == Cardinality({i \in DOMAIN seq : seq[i] = x})

\* No deployArchitecture call is waiting for its confirm() to return.
AllAnswered == Len(answers) = confirms

\* --------------------------------------------------------------------- C1
\* C1 (navigation exclusivity), as claimed: on a page initialised with the
\* dashboard active, after any sequence of nav-link clicks exactly one
\* content section is active, and it is the section of the last click whose
\* target existed (the dashboard when no click succeeded).
C1_NavigationExclusivity ==
    "dashboard" \in sections =>
        /\ Cardinality(activeSections) = 1
        /\ activeSections = {lastSelected}

\* --------------------------------------------------------------------- C2
\* C2 (unknown section), as claimed: on a page initialised with the
\* dashboard active, a click on a nav link whose data-section matches no
\* element leaves the set of active sections and
\* the set of active links as they were.
C2_UnknownSectionLeavesState ==
    [][\A link \in NavLinks :
          (/\ "dashboard" \in sections
           /\ GetElementById(DataSection(link)) = "null"
           /\ ClickNavLink(link))
              => UNCHANGED <<activeSections, activeLinks>>]_vars

\* --------------------------------------------------------------------- C3
\* C3 (workflow gate, denial): once confirm() has answered false to the
\* latest deployArchitecture call, the workflow is Cancelled, no dialog of
\* the run is open, no step has been simulated, and the run sent no
\* message: there are exactly as many "Deployment Started!" alerts as
\* granted confirmations.
C3_DenialCancels ==
    (answers # << >> /\ AllAnswered /\ Last(answers) = FALSE) =>
        /\ workflow = "Cancelled"
        /\ dialog \notin {"confirm", "progress"}
        /\ simulated = << >>
        /\ Count(alerts, DeploymentStarted) = Count(answers, TRUE)

\* A run was denied right after an earlier one was approved.
C3_Witness ==
    /\ answers = << TRUE, FALSE >>
    /\ workflow = "Cancelled"
    /\ Count(alerts, DeploymentStarted) = 1

\* --------------------------------------------------------------------- C4
\* The order in which the claim lists the steps.
DeclaredSteps ==
    << "Creating VPC...", "Creating subnets...",
       "Creating Internet Gateway...", "Creating NAT Gateways...",
       "Creating security groups...", "Launching EC2 instances...",
       "Creating load balancers...", "Creating RDS database...",
       "Configuring Route 53..." >>

C4_ApprovedRunNotifies ==
    /\ Count(alerts, DeploymentStarted) = Count(answers, TRUE)
    /\ \A i \in DOMAIN alerts :
          alerts[i].title = "Deployment Started!"
              => alerts[i].lines = DeclaredSteps
    /\ simulated = << >>
    /\ workflow \in {"Running", "Completed"} =>
          /\ answers # << >> /\ AllAnswered /\ Last(answers) = TRUE
          /\ alerts # << >>
    /\ workflow = "Running" <=> dialog = "progress"

C5_SecondRequestRefused ==
    [][(workflow # "Idle" /\ DeployArchitecture)
          => UNCHANGED <<workflow, confirms>>]_vars

\* C5, amended: at most one run is in progress at a time, because while a
\* run is Confirming or Running its dialog blocks the page and
\* deployArchitecture cannot be called; in Idle, and also in Completed and
\* Cancelled, a call is accepted (within the model's MaxDeploys) and asks
\* for confirmation again.
C5_OneRunAtATime ==
    /\ confirms - Len(answers) \in {0, 1}
    /\ workflow = "Confirming" <=> dialog = "confirm"
    /\ workflow = "Confirming" <=> ~AllAnswered
    /\ workflow \in {"Confirming", "Running"} => ~ENABLED DeployArchitecture
    /\ (/\ workflow \in {"Idle", "Completed", "Cancelled"}
        /\ dialog = "none"
        /\ confirms < MaxDeploys) => ENABLED DeployArchitecture

\* A second run is being confirmed after the first one completed.
C5_Witness ==
    /\ confirms = 2
    /\ answers = << TRUE >>
    /\ workflow = "Confirming"

\* --------------------------------------------------------------------- C6
\* C6 (step sequencing), as claimed: in an approved run each step is
\* simulated with its own delay, so a completed run has handed every step
\* to simulateAPICall.
C6_EachStepSimulated ==
    workflow = "Completed" =>
        \A k \in DOMAIN Steps : \E i \in DOMAIN simulated : simulated[i] = Steps[k]

\* C6, amended: an approved run simulates no step and starts no delay:
\* simulateAPICall is never called, the steps are only lines of the one
\* message of the run; so no step is ever in progress, let alone two.
C6_NoStepSimulated ==
    /\ simulated = << >>
    /\ \A i \in DOMAIN alerts :
          alerts[i] = DeploymentStarted => Len(alerts[i].lines) = Len(Steps)
    /\ Count(alerts, DeploymentStarted) = Count(answers, TRUE)

\* Two approved runs have completed.
C6_Witness ==
    /\ workflow = "Completed"
    /\ answers = << TRUE, TRUE >>
    /\ simulated = << >>

\* --------------------------------------------------------------------- C7
\* C7 (export independence), as claimed: export can be invoked in every
\* workflow state and every navigation state (the model's MaxExports and
\* export's own alert aside).
C7_ExportAlwaysEnabled ==
    (dialog # "exported" /\ Len(downloads) < MaxExports)
        => ENABLED ExportArchitecture

\* Export can be invoked exactly when no dialog is open, whatever the
\* navigation state; that covers Idle, Completed and Cancelled and excludes
\* Confirming and Running.
C7_EnabledWhenNoDialog ==
    /\ (dialog = "none" /\ Len(downloads) < MaxExports)
          => ENABLED ExportArchitecture
    /\ dialog # "none" => ~ENABLED ExportArchitecture
    /\ workflow \in {"Confirming", "Running"} => dialog # "none"

\* C7, amended: export is enabled in every navigation state and in the
\* workflow states Idle, Completed and Cancelled, whenever no dialog is
\* open; it cannot be invoked while the workflow is Confirming or Running,
\* whose dialog blocks the page.  A step that hands a file to the download
\* leaves the workflow state, the active section and link and the
\* configuration model unchanged; it adds one download and one
\* "exported" notification, nothing else.
C7_ExportIndependent ==
    /\ []C7_EnabledWhenNoDialog
    /\ [][Len(downloads') > Len(downloads) =>
            /\ UNCHANGED <<sections, activeLinks, activeSections, lastSelected,
                           workflow, confirms, answers, simulated>>
            /\ downloads' = Append(downloads, Last(downloads'))
            /\ Last(downloads').config = ArchitectureConfig
            /\ \A i \in DOMAIN downloads :
                  downloads[i].config = Last(downloads').config
            /\ alerts' = Append(alerts, ConfigurationExported)]_vars

\* Two exports were made, the second one with the architecture section
\* shown and
\* after a run was approved and a later one cancelled.
C7_Witness ==
    /\ Len(downloads) = 2
    /\ dialog = "exported"
    /\ workflow = "Cancelled"
    /\ Count(answers, TRUE) = 1
    /\ activeSections = {"architecture"}

\* --------------------------------------------------------------------- C8
\* The pieces of a serialised text at the positions that satisfy Test, in
\* the order in which they are written.
PiecesAt(blob, Test(_)) ==
    LET positions == SelectSeq([i \in 1..Len(blob) |-> i], Test)
    IN [k \in DOMAIN positions |-> blob[positions[k]]]

\* The keys of the outermost object of a serialised text: the pieces that
\* open a line indented by one level and are followed by ":".
TopLevelKeys(blob) ==
    PiecesAt(blob, LAMBDA i : /\ 1 < i /\ i < Len(blob)
                              /\ blob[i - 1] = NewLine(2)
                              /\ blob[i + 1] = ":")

\* The values written for a key: the pieces that follow the key, ":" and
\* the blank.
ValuesOf(blob, key) ==
    PiecesAt(blob, LAMBDA i : /\ i > 3
                              /\ blob[i - 3] = Quote(key)
                              /\ blob[i - 2] = ":")

\* The key order and the array contents the claim fixes, as written in the
\* file.
C8_KeyOrder ==
    << "\"vpc\"", "\"subnets\"", "\"securityGroups\"", "\"loadBalancers\"",
       "\"ec2Instances\"", "\"rds\"", "\"route53\"" >>

C8_NamesInOrder ==
    << "\"production-vpc\"",
       "\"public-subnet-1a\"", "\"private-subnet-1b\"", "\"private-subnet-1c\"",
       "\"web-tier-sg\"", "\"app-tier-sg\"", "\"db-tier-sg\"",
       "\"web-tier-alb\"", "\"app-tier-alb\"",
       "\"web-server-01\"", "\"web-server-02\"", "\"app-server-01\"",
       "\"app-server-02\"", "\"app-server-03\"",
       "\"www\"", "\"api\"" >>

C8_PortsInOrder == << "80", "443", "8080", "3306" >>

\* C8 (export determinism): all files exported so far, at whatever points of
\* the run, come from equal models and are identical piece for piece; each
\* has the top-level keys vpc, subnets, securityGroups, loadBalancers,
\* ec2Instances, rds, route53 in that order and its array elements in the
\* order of the literal.
C8_ExportDeterministic ==
    /\ \A i, j \in DOMAIN downloads :
          downloads[i].config = downloads[j].config
              => downloads[i].blob = downloads[j].blob
    /\ \A blob \in {downloads[i].blob : i \in DOMAIN downloads} :
          /\ TopLevelKeys(blob) = C8_KeyOrder
          /\ ValuesOf(blob, "name") = C8_NamesInOrder
          /\ ValuesOf(blob, "port") = C8_PortsInOrder

\* Two exports were made at different points: different workflow states
\* and different active sections lie between them.
C8_Witness ==
    /\ Len(downloads) = 2
    /\ workflow = "Completed"
    /\ activeSections = {"ec2"}
    /\ Len(alerts) = 3
    /\ alerts[2] = DeploymentStarted

\* --------------------------------------------------------------------- C9
\* The data-model invariants the claim lists, read off a configuration
\* object.  The script has no validate(); the invariants are stated here
\* and checked on the object that export serialises.

\* The value of a property of an object; the texts of an array's elements.
Get(obj, key) ==
    LET i == CHOOSE i \in DOMAIN obj.v : obj.v[i].k = key IN obj.v[i].v
Text(obj, key) == Get(obj, key).v
Elems(obj, key) == Get(obj, key).v
Range(seq) == {seq[i] : i \in DOMAIN seq}

\* CIDR blocks a.b.c.d/p over the octets and prefix lengths below, and
\* their written form.  A text is read as a CIDR block by finding the
\* block that is written that way; a text no block is written as is not a
\* valid CIDR.
OctetValues == {0, 1, 2, 3, 4, 10}
PrefixLengths == {0, 8, 16, 24, 32}
CidrBlocks == [o : [1..4 -> OctetValues], p : PrefixLengths]
CidrText(c) ==
    ToString(c.o[1]) \o "." \o ToString(c.o[2]) \o "." \o ToString(c.o[3])
        \o "." \o ToString(c.o[4]) \o "/" \o ToString(c.p)
CidrTexts == [c \in CidrBlocks |-> CidrText(c)]
ParseCidr(text) == {c \in CidrBlocks : CidrTexts[c] = text}

RECURSIVE Pow2(_)
Pow2(n) == IF n = 0 THEN 1 ELSE 2 * Pow2(n - 1)

\* The number of leading bits of octet k that a prefix of length p covers.
BitsOf(p, k) ==
    LET left == p - 8 * (k - 1)
    IN IF left <= 0 THEN 0 ELSE IF left >= 8 THEN 8 ELSE left

\* Two addresses agree on their first p bits.
SamePrefix(a, b, p) ==
    \A k \in 1..4 :
        a[k] \div Pow2(8 - BitsOf(p, k)) = b[k] \div Pow2(8 - BitsOf(p, k))

\* No host bit of the block is set.
Aligned(c) == \A k \in 1..4 : c.o[k] % Pow2(8 - BitsOf(c.p, k)) = 0

Inside(inner, outer) ==
    inner.p >= outer.p /\ SamePrefix(inner.o, outer.o, outer.p)

Overlap(c1, c2) ==
    SamePrefix(c1.o, c2.o, IF c1.p <= c2.p THEN c1.p ELSE c2.p)

\* The security group and the load balancer a tier resolves to by name.
TierSecurityGroup(tier) == tier \o "-tier-sg"
TierLoadBalancer(tier) == tier \o "-tier-alb"

GroupNames(m) == {Text(g, "name") : g \in Range(Elems(m, "securityGroups"))}

\* Group a allows traffic from x: a rule of a names x as its source.
AllowsFrom(m) ==
    UNION {{<<Text(g, "name"), Text(r, "source")>> :
                r \in Range(Elems(g, "inbound"))} :
              g \in Range(Elems(m, "securityGroups"))}

\* The pairs joined by a path of the relation.
Compose(r1, r2) ==
    {<<e[1][1], e[2][2]>> : e \in {f \in r1 \X r2 : f[1][2] = f[2][1]}}
RECURSIVE Paths(_, _)
Paths(rel, n) == IF n = 0 THEN rel ELSE Paths(rel \cup Compose(rel, rel), n - 1)

\* A tier is internet-facing when its security group admits 0.0.0.0/0.
InternetFacingTiers(m) ==
    {t \in {Text(i, "tier") : i \in Range(Elems(m, "ec2Instances"))} :
        <<TierSecurityGroup(t), "0.0.0.0/0">> \in AllowsFrom(m)}

\* The kinds of violation a configuration object shows.
Violations(m) ==
    LET vpc == ParseCidr(Text(Get(m, "vpc"), "cidr"))
        subnets == Elems(m, "subnets")
        block(i) == ParseCidr(Text(subnets[i], "cidr"))
        groupEdges == {e \in AllowsFrom(m) : e[2] \in GroupNames(m)}
        tiers == {Text(i, "tier") : i \in Range(Elems(m, "ec2Instances"))}
    IN  {k \in {"InvalidCidr"} :
            \/ vpc = {} \/ \E c \in vpc : ~Aligned(c)
            \/ \E i \in DOMAIN subnets :
                  block(i) = {} \/ \E c \in block(i) : ~Aligned(c)}
        \cup {k \in {"CidrOutsideVpc"} :
            \E i \in DOMAIN subnets :
                \E c \in block(i), v \in vpc : ~Inside(c, v)}
        \cup {k \in {"OverlappingCidr"} :
            \E i, j \in DOMAIN subnets :
                i # j /\ \E c \in block(i), d \in block(j) : Overlap(c, d)}
        \cup {k \in {"InsufficientAzCoverage"} :
            Cardinality({Text(subnets[i], "az") : i \in DOMAIN subnets}) < 3}
        \cup {k \in {"DanglingSecurityGroupReference"} :
            \E e \in AllowsFrom(m) :
                ParseCidr(e[2]) = {} /\ e[2] \notin GroupNames(m)}
        \cup {k \in {"SecurityGroupCycle"} :
            \E g \in GroupNames(m) :
                <<g, g>> \in Paths(groupEdges, Cardinality(GroupNames(m)))}
        \cup {k \in {"MissingTierSecurityGroup"} :
            \E t \in tiers : TierSecurityGroup(t) \notin GroupNames(m)}
        \cup {k \in {"MissingLoadBalancerForTier"} :
            \E t \in InternetFacingTiers(m) :
                ~\E b \in Range(Elems(m, "loadBalancers")) :
                    /\ Text(b, "name") = TierLoadBalancer(t)
                    /\ Text(b, "scheme") = "internet-facing"}

\* The default model shows no violation.
DefaultModelViolations == Violations(ArchitectureConfig)

\* C9 (default model validity): the model that export serialises is the
\* default three-tier model, and it satisfies every data-model invariant:
\* valid CIDR blocks, each subnet inside the VPC block and disjoint from
\* its siblings, subnets in at least 3 availability zones, every named rule
\* source an existing group, no cycle among the groups, and every instance
\* tier with its security group and, when internet-facing, its load
\* balancer.
C9_DefaultModelValid ==
    /\ DefaultModelViolations = {}
    /\ \A i \in DOMAIN downloads : downloads[i].config = ArchitectureConfig

\* The model has been serialised by an export; it is the model with the
\* VPC block 10.0.0.0/16 and the web, app and db groups in a chain.
C9_Witness ==
    /\ downloads # << >>
    /\ ParseCidr(Text(Get(Last(downloads).config, "vpc"), "cidr"))
         = {[o |-> <<10, 0, 0, 0>>, p |-> 16]}
    /\ InternetFacingTiers(Last(downloads).config) = {"web"}
    /\ {e \in AllowsFrom(Last(downloads).config) :
          e[2] \in GroupNames(Last(downloads).config)}
         = {<<"app-tier-sg", "web-tier-sg">>, <<"db-tier-sg", "app-tier-sg">>}

\* -------------------------------------------------------------------- C11
\* C11 (link/section agreement): once a nav link has been clicked, exactly
\* one nav link is active and it is the link clicked last; every active
\* content section has the id that link's data-section names, so at most
\* one section is active and none but the one the active link names.
\* Before any click, on a page initialised with the dashboard, the active
\* link and the active section are the dashboard's.
C11_LinkSectionAgreement ==
    /\ lastClicked # "none" =>
          /\ activeLinks = {lastClicked}
          /\ \A section \in activeSections : section = DataSection(lastClicked)
          /\ Cardinality(activeSections) <= 1
    /\ (lastClicked = "none" /\ "dashboard" \in sections) =>
          /\ activeLinks = {"dashboard"}
          /\ activeSections = {DataSection("dashboard")}

\* A link without a section was clicked after a click on the architecture
\* link had shown its section.
C11_Witness ==
    /\ lastClicked = "ec2"
    /\ lastSelected = "architecture"
    /\ activeLinks = {"ec2"}
    /\ activeSections = {}

\* -------------------------------------------------------------------- C12
\* The calls of one export, in the order the claim gives.
ExportProtocol ==
    << "createObjectURL", "appendChild", "click", "removeChild",
       "revokeObjectURL", "alert" >>

\* The number of exportArchitecture calls made: each ends in its message.
ExportCount == Count(alerts, ConfigurationExported)

\* C12 (export hand-off and cleanup): every exportArchitecture call creates
\* an object URL, attaches the anchor, clicks it once, detaches it, revokes
\* the URL and only then notifies, in that order; so after any number of
\* calls document.body holds no anchor of an export, no object URL of an
\* export is live, and as many files were handed to the download as there
\* were calls, each under the name aws-architecture-config.json.
C12_HandOffAndCleanup ==
    /\ Len(exportCalls) = Len(ExportProtocol) * ExportCount
    /\ \A i \in DOMAIN exportCalls :
          exportCalls[i] = ExportProtocol[((i - 1) % Len(ExportProtocol)) + 1]
    /\ body = {}
    /\ objectUrls = {}
    /\ Len(downloads) = ExportCount
    /\ \A i \in DOMAIN downloads :
          downloads[i].download = "aws-architecture-config.json"

\* Two exports were made and their messages dismissed.
C12_Witness ==
    /\ ExportCount = 2
    /\ Len(exportCalls) = 12
    /\ Len(downloads) = 2
    /\ dialog = "none"

====
